---- MODULE Spec2Model ----
(***************************************************************************)
(* Model of qkit/measure/timedomain/pulse_sequence.py: the PulseSequence   *)
(* builder (add, add_wait, add_readout) and its evaluation (__call__).     *)
(*                                                                         *)
(* Times are integers counted in ticks, TicksPerSecond ticks to a second,  *)
(* so that a length of 5 ticks at samplerate 1 is 1.25 samples.  Pulse     *)
(* objects live in `heap`; a pulse's identity is its index there (Python's *)
(* `is`).  Sample values are integers: a pulse of type Pulse renders       *)
(* amplitude * shape(x), the shapes being zero, rect and a caller-supplied *)
(* step shape (0 on [0, 1/2), 1 on [1/2, 1)).                              *)
(***************************************************************************)
EXTENDS Integers, Sequences, FiniteSets, TLC

VARIABLES
    _sequence,                \* self._sequence: list of slices, each a list of pulse ids
    _next_pulse_is_parallel,  \* self._next_pulse_is_parallel
    _pulses,                  \* self._pulses: name -> pulse id
    _variables,               \* self._variables: set of parameter names
    _sample,                  \* self._sample
    samplerate,               \* self.samplerate (0: None)
    dc_corr,                  \* self.dc_corr
    heap,                     \* the Pulse objects, by identity
    last_op,                  \* the last call made on the sequence and its arguments
    ret,                      \* what that call returned
    log,                      \* what that call reported through logging.error
    trace                     \* the locals of the last __call__, slice by slice

vars == <<_sequence, _next_pulse_is_parallel, _pulses, _variables, _sample,
          samplerate, dc_corr, heap, last_op, ret, log, trace>>

seqvars == <<_sequence, _next_pulse_is_parallel, _pulses, _variables>>

-----------------------------------------------------------------------------
(* Bounds of the model. *)

\* Ticks per second: the resolution of the time grid.
TicksPerSecond == 4
\* No append is tried once this many pulses are scheduled.
MaxPulses == 3

-----------------------------------------------------------------------------
(* Values. *)

NoneName == [tag |-> "None", val |-> ""]
Str(s) == [tag |-> "str", val |-> s]
NonStr(s) == [tag |-> "int", val |-> s]

\* A length: a float (a number of ticks) or a function of named parameters,
\* here the sum of its arguments (lambda t: t, lambda t, u: t + u).
Fixed(n) == [callable |-> FALSE, value |-> n, args |-> <<>>]
Lambda(args) == [callable |-> TRUE, value |-> 0, args |-> args]

EmptyMap == [k \in {} |-> 0]

\* One keyword argument, and two
Kw1(k, v) == [x \in {k} |-> v]
Kw2(k1, v1, k2, v2) == [x \in {k1, k2} |-> IF x = k1 THEN v1 ELSE v2]

\* The keyword arguments __call__ is given: lengths in ticks.
Kwargs ==
    { EmptyMap, Kw1("t", 8), Kw1("t", 1), Kw1("u", 8),
      Kw2("t", 8, "u", 1) }

Range(s) == {s[i] : i \in DOMAIN s}

Max(a, b) == IF a >= b THEN a ELSE b

\* Pulse(length, shape, name, amplitude, phase, iq_frequency, ..., ptype)
Pulse(length, shape, name, amplitude, iq_frequency, ptype) ==
    [length |-> length, shape |-> shape, name |-> name, amplitude |-> amplitude,
     iq_frequency |-> iq_frequency, type |-> ptype]

\* The Pulse objects the caller has built.
UserPulses ==
    << Pulse(Fixed(12), "rect", Str("a"), 1, 0, "Pulse"),
       Pulse(Fixed(5), "step", Str("b"), 2, 1, "Pulse"),
       Pulse(Lambda(<<"t">>), "rect", Str("a"), 3, 0, "Pulse"),
       Pulse(Fixed(4), "rect", NoneName, 1, 0, "Pulse"),
       Pulse(Fixed(4), "rect", NonStr("7"), 1, 0, "Pulse") >>

\* The pulses add_readout is called with (0: none given).
ReadoutPulses == {0, 3}

\* The sample objects a sequence is built with: None, or one with a clock
\* and a readout tone length.
NoSample == [present |-> FALSE, clock |-> 0, readout_tone_length |-> 0]
TheSample == [present |-> TRUE, clock |-> 1, readout_tone_length |-> 8]

\* PulseSequence(sample, samplerate, dc_corr) as it is constructed.
Constructions ==
    { [sample |-> NoSample, samplerate |-> 0, dc_corr |-> 0],
      [sample |-> NoSample, samplerate |-> 1, dc_corr |-> 3],
      [sample |-> TheSample, samplerate |-> 0, dc_corr |-> 0] }

\* The wait times and names add_wait is called with.
WaitCalls ==
    { [time |-> Fixed(9), name |-> NoneName],
      [time |-> Lambda(<<"u">>), name |-> Str("b")] }

NoRet == [kind |-> "none", waveform |-> <<>>, readout_index |-> 0]
SelfRet == [kind |-> "self", waveform |-> <<>>, readout_index |-> 0]
NoneRet == [kind |-> "None", waveform |-> <<>>, readout_index |-> 0]
RaisedRet == [kind |-> "raised", waveform |-> <<>>, readout_index |-> 0]
TupleRet(w, i) == [kind |-> "tuple", waveform |-> w, readout_index |-> i]

Op(name, id, pname, skip, iq, kw) ==
    [name |-> name, pulse |-> id, pname |-> pname, skip |-> skip,
     IQ_mixing |-> iq, kwargs |-> kw]

NoTrace == [positions |-> <<>>, slice_lengths |-> <<>>, mixes |-> <<>>]

-----------------------------------------------------------------------------
(* PulseSequence.__init__ *)

Init ==
    \E c \in Constructions :
        /\ _sequence = <<>>
        /\ _next_pulse_is_parallel = FALSE
        /\ _pulses = EmptyMap
        /\ _variables = {}
        /\ _sample = c.sample
        /\ dc_corr = c.dc_corr
        /\ samplerate = IF c.sample.present THEN c.sample.clock ELSE c.samplerate
        /\ heap = UserPulses
        /\ last_op = Op("init", 0, NoneName, FALSE, FALSE, EmptyMap)
        /\ ret = NoRet
        /\ log = "none"
        /\ trace = NoTrace

-----------------------------------------------------------------------------
(* PulseSequence.add *)

NumScheduled(sequence) ==
    LET RECURSIVE Count(_)
        Count(i) == IF i = 0 THEN 0 ELSE Len(sequence[i]) + Count(i - 1)
    IN  Count(Len(sequence))

\* pulse.name is None or not isinstance(pulse.name, str)
NameNotValid(pulse) == pulse.name.tag = "None" \/ pulse.name.tag # "str"

\* (mutant) the identity test the wrong way round
NameTaken_IsPulse(pulses, pulse, id) ==
    pulse.name.val \in DOMAIN pulses /\ pulses[pulse.name.val] = id

\* (mutant) any registered name is refused
NameTaken_AnyObject(pulses, pulse, id) == pulse.name.val \in DOMAIN pulses

\* self._pulses.has_key(pulse.name) and not self._pulses[pulse.name] is pulse
NameTaken(pulses, pulse, id) ==
    pulse.name.val \in DOMAIN pulses /\ pulses[pulse.name.val] # id

Register(pulses, pulse, id) ==
    IF pulse.name.val \in DOMAIN pulses
    THEN pulses
    ELSE [k \in DOMAIN pulses \cup {pulse.name.val} |->
            IF k = pulse.name.val THEN id ELSE pulses[k]]

UpdateVariables(variables, pulse) ==
    IF pulse.length.callable THEN variables \cup Range(pulse.length.args)
    ELSE variables

Schedule(sequence, parallel, id) ==
    LET opened == IF ~parallel THEN Append(sequence, <<>>) ELSE sequence
    IN  [opened EXCEPT ![Len(opened)] = Append(@, id)]

\* (mutant) the argument names are collected before the name is checked
AddResult_VariablesFirst(sequence, parallel, pulses, variables, pulse, id, skip) ==
    IF NameNotValid(pulse) \/ NameTaken(pulses, pulse, id)
    THEN [sequence |-> sequence, parallel |-> parallel, pulses |-> pulses,
          variables |-> UpdateVariables(variables, pulse),
          log |-> "error:name", accepted |-> FALSE]
    ELSE [sequence |-> Schedule(sequence, parallel, id),
          parallel |-> skip,
          pulses |-> Register(pulses, pulse, id),
          variables |-> UpdateVariables(variables, pulse),
          log |-> "none", accepted |-> TRUE]

\* The sequence's fields and what is logged after add(pulse, skip), pulse
\* being the object of identity id.
AddResult(sequence, parallel, pulses, variables, pulse, id, skip) ==
    IF NameNotValid(pulse)
    THEN [sequence |-> sequence, parallel |-> parallel, pulses |-> pulses,
          variables |-> variables, log |-> "error:name", accepted |-> FALSE]
    ELSE IF NameTaken(pulses, pulse, id)
    THEN [sequence |-> sequence, parallel |-> parallel, pulses |-> pulses,
          variables |-> variables, log |-> "error:name", accepted |-> FALSE]
    ELSE [sequence |-> Schedule(sequence, parallel, id),
          parallel |-> skip,
          pulses |-> Register(pulses, pulse, id),
          variables |-> UpdateVariables(variables, pulse),
          log |-> "none", accepted |-> TRUE]

\* self.add(pulse, skip) as a step, with the heap the call leaves behind.
add(opname, pulse, id, skip_given, skip, newheap) ==
    \E r \in {AddResult(_sequence, _next_pulse_is_parallel, _pulses, _variables,
                         pulse, id, skip)} :
        /\ _sequence' = r.sequence
        /\ _next_pulse_is_parallel' = r.parallel
        /\ _pulses' = r.pulses
        /\ _variables' = r.variables
        /\ heap' = newheap
        /\ last_op' = Op(opname, id, pulse.name, skip_given, FALSE, EmptyMap)
        /\ ret' = SelfRet
        /\ log' = r.log
        /\ trace' = NoTrace
        /\ UNCHANGED <<_sample, samplerate, dc_corr>>

Add ==
    /\ NumScheduled(_sequence) < MaxPulses
    /\ \E id \in 1..Len(UserPulses), skip \in BOOLEAN :
          add("add", heap[id], id, skip, skip, heap)

-----------------------------------------------------------------------------
(* PulseSequence.add_wait, PulseSequence.add_readout *)

\* compose_name(index): "wait[0]", "readout[1]", ...
compose_name(prefix, index) == prefix \o "[" \o ToString(index) \o "]"

\* The first index whose composed name is not a key of self._pulses.
RECURSIVE UnusedIndex(_, _, _)
UnusedIndex(pulses, prefix, index) ==
    IF compose_name(prefix, index) \in DOMAIN pulses
    THEN UnusedIndex(pulses, prefix, index + 1)
    ELSE index

\* A pulse object made inside add_wait or add_readout gets the next
\* identity; it stays on the heap only if add keeps a reference to it.
AddFresh(opname, pulse, skip_given) ==
    LET id == Len(heap) + 1
        r == AddResult(_sequence, _next_pulse_is_parallel, _pulses, _variables,
                       pulse, id, FALSE)
    IN  add(opname, pulse, id, skip_given, FALSE,
            IF r.accepted THEN Append(heap, pulse) ELSE heap)

AddWait ==
    /\ NumScheduled(_sequence) < MaxPulses
    /\ \E w \in WaitCalls :
          LET name == IF w.name.tag = "None"
                      THEN Str(compose_name("wait", UnusedIndex(_pulses, "wait", 0)))
                      ELSE w.name
          IN  AddFresh("add_wait", Pulse(w.time, "zero", name, 1, 0, "Wait"), FALSE)

\* readout_length: self._sample.readout_tone_length, or 0. without it
ReadoutLength == IF _sample.present THEN _sample.readout_tone_length ELSE 0

AddReadout ==
    /\ NumScheduled(_sequence) < MaxPulses
    /\ \E skip \in BOOLEAN, pulse \in ReadoutPulses :
          IF pulse = 0
          THEN LET name == Str(compose_name("readout",
                                            UnusedIndex(_pulses, "readout", 0)))
               IN  AddFresh("add_readout",
                            Pulse(Fixed(ReadoutLength), "zero", name, 1, 0, "Readout"),
                            skip)
          ELSE LET coerced == [heap EXCEPT ![pulse].type = "Readout"]
               IN  add("add_readout", coerced[pulse], pulse, skip, FALSE, coerced)

-----------------------------------------------------------------------------
(* PulseSequence.__call__ *)

\* ceil(a / b) and round(a / b) for a >= 0, b > 0 (round: halves go up)
Ceil(a, b) == (a + b - 1) \div b
Round(a, b) == (2 * a + b) \div (2 * b)

\* timestep = 1.0 / self.samplerate, in ticks
timestep(rate) == TicksPerSecond \div rate

\* (mutant) only missing names are a mismatch
ParameterMismatch_Missing(variables, kwargs) ==
    ~(variables \subseteq DOMAIN kwargs)

\* self._variables != set(kwargs.keys())
ParameterMismatch(variables, kwargs) == variables # DOMAIN kwargs

\* length = pulse.length(**required_arguments), or pulse.length
ResolveLength(pulse, kwargs) ==
    IF pulse.length.callable
    THEN LET args == pulse.length.args
             RECURSIVE Sum(_)
             Sum(i) == IF i = 0 THEN 0 ELSE kwargs[args[i]] + Sum(i - 1)
         IN  Sum(Len(args))
    ELSE pulse.length.value

\* shape(x) at x = t / length, t = k * timestep
ShapeValue(shape, t, length) ==
    IF shape = "rect" THEN (IF t >= 0 /\ t < length THEN 1 ELSE 0)
    ELSE IF shape = "step" THEN (IF 2 * t >= length THEN 1 ELSE 0)
    ELSE 0

\* wfm: the array of one pulse
PulseWfm(pulse, length, rate) ==
    IF pulse.type = "Pulse"
    THEN IF 2 * length > timestep(rate)
         THEN [k \in 1..Ceil(length, timestep(rate)) |->
                  pulse.amplitude
                  * ShapeValue(pulse.shape, (k - 1) * timestep(rate), length)]
         ELSE <<>>
    ELSE [k \in 1..Round(length * rate, TicksPerSecond) |-> 0]

\* (mutant) only the first readout found is recorded
ReadoutIndex_First(readout_index, pulse, position_of_next_slice) ==
    IF pulse.type = "Readout" /\ readout_index = 0
    THEN position_of_next_slice
    ELSE readout_index

\* readout_index after a pulse of the slice starting at position
ReadoutIndex(readout_index, pulse, position_of_next_slice) ==
    IF pulse.type = "Readout" THEN position_of_next_slice ELSE readout_index

\* time = np.arange(position_of_next_slice, len(wfm)) * timestep
IQTime(position_of_next_slice, n, rate) ==
    [k \in 1..Max(0, n - position_of_next_slice) |->
        (position_of_next_slice + k - 1) * timestep(rate)]

\* iq_phase, one value per point of time, broadcasts to wfm in wfm *= iq_phase
CarrierBroadcasts(wfm, time) == Len(time) = Len(wfm) \/ Len(time) = 1

\* wfm *= iq_phase writes a complex product into wfm, an array of reals:
\* numpy (1.10 and later, casting rule same_kind) refuses that for every wfm.
ComplexCastsToReal(wfm) == FALSE

\* wfm *= iq_phase raises
MixRaises(wfm, time) ==
    ~CarrierBroadcasts(wfm, time) \/ ~ComplexCastsToReal(wfm)

\* a.resize(n): cut, or filled with zeros
Resize(a, n) == [k \in 1..n |-> IF k <= Len(a) THEN a[k] ELSE 0]

\* wfm_slice after a pulse: both resized to the longer one, then wfm_slice += wfm
Accumulate(wfm_slice, wfm) ==
    LET n == Max(Len(wfm_slice), Len(wfm))
    IN  [k \in 1..n |-> Resize(wfm_slice, n)[k] + Resize(wfm, n)[k]]

\* (mutant) the longest pulse of the slice decides
LastWfmLength_Longest(wfm_slice, wfm) == Max(Len(wfm_slice), Len(wfm))

\* last_wfm_length after a pulse
LastWfmLength(wfm_slice, wfm) == Len(wfm)

\* The carriers computed so far, with the one of this pulse if it is mixed:
\* where its slice starts, how many samples it has, and the points of time.
Mixes(mixes, pulse, wfm, IQ_mixing, position_of_next_slice) ==
    IF IQ_mixing /\ pulse.iq_frequency # 0
    THEN Append(mixes,
                [position |-> position_of_next_slice, n |-> Len(wfm),
                 time |-> IQTime(position_of_next_slice, Len(wfm), samplerate)])
    ELSE mixes

\* One pass of the loop over the pulses of a slice: the slice's locals
\* after pulse, whose array is wfm. When wfm *= iq_phase raises, the call
\* is left there: the pulse is not added to wfm_slice and last_wfm_length
\* keeps its value.
PulseStep(st, pulse, wfm, IQ_mixing, position_of_next_slice) ==
    IF /\ IQ_mixing
       /\ pulse.iq_frequency # 0
       /\ MixRaises(wfm, IQTime(position_of_next_slice, Len(wfm), samplerate))
    THEN [wfm_slice |-> st.wfm_slice,
          last_wfm_length |-> st.last_wfm_length,
          readout_index |-> ReadoutIndex(st.readout_index, pulse,
                                         position_of_next_slice),
          mixes |-> Mixes(st.mixes, pulse, wfm, IQ_mixing,
                          position_of_next_slice),
          raised |-> TRUE]
    ELSE [wfm_slice |-> Accumulate(st.wfm_slice, wfm),
          last_wfm_length |-> LastWfmLength(st.wfm_slice, wfm),
          readout_index |-> ReadoutIndex(st.readout_index, pulse,
                                         position_of_next_slice),
          mixes |-> Mixes(st.mixes, pulse, wfm, IQ_mixing,
                          position_of_next_slice),
          raised |-> FALSE]

\* The loop over the pulses of one slice, from the i-th on.
RECURSIVE PulseLoop(_, _, _, _, _, _)
PulseLoop(time_slice, i, st, IQ_mixing, kwargs, position_of_next_slice) ==
    IF i > Len(time_slice) \/ st.raised
    THEN st
    ELSE PulseLoop(time_slice, i + 1,
             PulseStep(st, heap[time_slice[i]],
                       PulseWfm(heap[time_slice[i]],
                                ResolveLength(heap[time_slice[i]], kwargs),
                                samplerate),
                       IQ_mixing, position_of_next_slice),
             IQ_mixing, kwargs, position_of_next_slice)

\* (mutant) the slice overwrites what is there
MergeSlice_Overwrite(full_waveform, position_of_next_slice, wfm_slice) ==
    LET n == Max(Len(full_waveform), position_of_next_slice + Len(wfm_slice))
    IN  [k \in 1..n |->
            IF /\ k > position_of_next_slice
               /\ k <= position_of_next_slice + Len(wfm_slice)
            THEN wfm_slice[k - position_of_next_slice]
            ELSE Resize(full_waveform, n)[k]]

\* full_waveform after a slice is added at position_of_next_slice
MergeSlice(full_waveform, position_of_next_slice, wfm_slice) ==
    LET n == Max(Len(full_waveform), position_of_next_slice + Len(wfm_slice))
        wfm_slice_filled ==
            [k \in 1..n |->
                IF /\ k > position_of_next_slice
                   /\ k <= position_of_next_slice + Len(wfm_slice)
                THEN wfm_slice[k - position_of_next_slice]
                ELSE 0]
    IN  [k \in 1..n |-> Resize(full_waveform, n)[k] + wfm_slice_filled[k]]

\* One pass of the loop over the slices: the locals after a slice whose
\* pulses left s. When a pulse of the slice raised, the call was left inside
\* the slice: nothing is merged and the cursor stays.
SliceStep(st, s) ==
    IF s.raised
    THEN [full_waveform |-> st.full_waveform,
          readout_index |-> s.readout_index,
          position_of_next_slice |-> st.position_of_next_slice,
          raised |-> TRUE,
          mixes |-> s.mixes,
          positions |-> st.positions,
          slice_lengths |-> st.slice_lengths]
    ELSE [full_waveform |-> MergeSlice(st.full_waveform,
                                       st.position_of_next_slice, s.wfm_slice),
          readout_index |-> s.readout_index,
          position_of_next_slice |->
              st.position_of_next_slice + s.last_wfm_length,
          raised |-> FALSE,
          mixes |-> s.mixes,
          positions |-> Append(st.positions, st.position_of_next_slice),
          slice_lengths |-> Append(st.slice_lengths, Len(s.wfm_slice))]

\* The loop over the slices, from the i-th on.
RECURSIVE SliceLoop(_, _, _, _)
SliceLoop(i, st, IQ_mixing, kwargs) ==
    IF i > Len(_sequence) \/ st.raised
    THEN st
    ELSE SliceLoop(i + 1,
             SliceStep(st, PulseLoop(_sequence[i], 1,
                               [wfm_slice |-> <<>>, last_wfm_length |-> 0,
                                readout_index |-> st.readout_index,
                                mixes |-> st.mixes, raised |-> FALSE],
                               IQ_mixing, kwargs, st.position_of_next_slice)),
             IQ_mixing, kwargs)

\* (mutant) the zeros are put around before dc_corr is added
Finish_PadFirst(full_waveform, dc) ==
    [k \in 1..(Len(full_waveform) + 2) |->
        (<<0>> \o full_waveform \o <<0>>)[k] + dc]

\* full_waveform += self.dc_corr, then a 0 before and after it
Finish(full_waveform, dc) ==
    <<0>> \o [k \in 1..Len(full_waveform) |-> full_waveform[k] + dc] \o <<0>>

\* (mutant) the leading zero is not counted
Returned_NoShift(full_waveform, readout_index) ==
    TupleRet(full_waveform, readout_index)

\* return full_waveform, readout_index + 1
Returned(full_waveform, readout_index) == TupleRet(full_waveform, readout_index + 1)

\* What __call__ returns once the loop over the slices has left st.
AfterLoop(st) ==
    [ret |-> IF st.raised
             THEN RaisedRet
             ELSE Returned(Finish(st.full_waveform, dc_corr), st.readout_index),
     log |-> "none",
     trace |-> [positions |-> Append(st.positions, st.position_of_next_slice),
                slice_lengths |-> st.slice_lengths,
                mixes |-> st.mixes]]

\* What __call__(IQ_mixing, **kwargs) returns, reports and went through.
CallResult(IQ_mixing, kwargs) ==
    IF ParameterMismatch(_variables, kwargs)
    THEN [ret |-> NoneRet, log |-> "error:arguments", trace |-> NoTrace]
    ELSE IF samplerate = 0
    THEN [ret |-> NoneRet, log |-> "error:samplerate", trace |-> NoTrace]
    ELSE AfterLoop(SliceLoop(1,
                       [full_waveform |-> <<>>, readout_index |-> 0,
                        position_of_next_slice |-> 0, raised |-> FALSE,
                        mixes |-> <<>>,
                        positions |-> <<>>, slice_lengths |-> <<>>],
                       IQ_mixing, kwargs))

Call ==
    \E IQ_mixing \in BOOLEAN, kwargs \in Kwargs :
        \E r \in {CallResult(IQ_mixing, kwargs)} :
            /\ ret' = r.ret
            /\ log' = r.log
            /\ trace' = r.trace
            /\ last_op' = Op("call", 0, NoneName, FALSE, IQ_mixing, kwargs)
            /\ UNCHANGED <<seqvars, _sample, samplerate, dc_corr, heap>>

-----------------------------------------------------------------------------
(* What the properties below speak of. *)

CallOk == last_op.name = "call" /\ ret.kind = "tuple"

Appends == {"add", "add_wait", "add_readout"}

LastOf(s) == s[Len(s)]

SetMax(S) == CHOOSE x \in S : \A y \in S : y <= x

\* The number of samples the pulse of identity id renders under kwargs.
NSamples(id, kwargs) ==
    Len(PulseWfm(heap[id], ResolveLength(heap[id], kwargs), samplerate))

\* The start offset of slice i: the sample counts of the pulses appended
\* last to the slices before it, summed.
RECURSIVE SliceStart(_, _)
SliceStart(i, kwargs) ==
    IF i <= 1 THEN 0
    ELSE SliceStart(i - 1, kwargs) + NSamples(LastOf(_sequence[i - 1]), kwargs)

\* The length of slice i's buffer: its longest pulse.
SliceBuffer(i, kwargs) ==
    SetMax({NSamples(_sequence[i][j], kwargs) : j \in DOMAIN _sequence[i]})

\* The slices that hold a pulse of type Readout.
ReadoutSlices ==
    {i \in DOMAIN _sequence :
        \E j \in DOMAIN _sequence[i] : heap[_sequence[i][j]].type = "Readout"}

-----------------------------------------------------------------------------
(* C1: when a successfully evaluated sequence holds a Readout pulse, the    *)
(* returned readout index is 1 + the start offset of the last slice that   *)
(* holds one, whatever else that slice holds.                              *)

C1_ReadoutIndex ==
    (CallOk /\ ReadoutSlices # {}) =>
        ret.readout_index
            = 1 + SliceStart(SetMax(ReadoutSlices), last_op.kwargs)

\* A readout in the third slice, after two slices of one pulse each that
\* both take time: the index is L0 + L1 + 1.
C1_Witness ==
    /\ CallOk
    /\ Len(_sequence) = 3
    /\ ReadoutSlices = {3}
    /\ Len(_sequence[1]) = 1 /\ Len(_sequence[2]) = 1
    /\ NSamples(_sequence[1][1], last_op.kwargs) > 0
    /\ NSamples(_sequence[2][1], last_op.kwargs) > 0
    /\ ret.readout_index
         = NSamples(_sequence[1][1], last_op.kwargs)
           + NSamples(_sequence[2][1], last_op.kwargs) + 1

-----------------------------------------------------------------------------
(* C2: the slice cursor advances, after each slice, by the sample count of *)
(* the pulse appended last to it, not by the longest pulse of the slice.   *)

C2_CursorAdvance ==
    (last_op.name = "call" /\ ret.kind = "tuple") =>
        /\ Len(trace.positions) = Len(_sequence) + 1
        /\ trace.positions[1] = 0
        /\ \A i \in DOMAIN _sequence :
              trace.positions[i + 1]
                  = trace.positions[i]
                    + NSamples(LastOf(_sequence[i]), last_op.kwargs)

\* A slice whose first pulse is longer than its last, and a slice after it:
\* the buffer is longer than the advance of the cursor.
C2_Witness ==
    /\ CallOk
    /\ Len(_sequence) >= 2
    /\ Len(_sequence[1]) = 2
    /\ NSamples(_sequence[1][1], last_op.kwargs)
         > NSamples(_sequence[1][2], last_op.kwargs)
    /\ NSamples(_sequence[1][2], last_op.kwargs) > 0
    /\ trace.slice_lengths[1] = NSamples(_sequence[1][1], last_op.kwargs)
    /\ trace.positions[2] = NSamples(_sequence[1][2], last_op.kwargs)

-----------------------------------------------------------------------------
(* C3: after add_readout(skip=True) the next pulse appended joins the      *)
(* slice of that readout pulse instead of opening a new slice.             *)

\* The claim as stated: a pulse scheduled right after an accepted
\* add_readout(skip=True) goes to the slice the readout pulse is in.
C3_ReadoutSkipJoins ==
    [][(/\ last_op.name = "add_readout" /\ last_op.skip /\ log = "none"
        /\ last_op'.name \in Appends /\ log' = "none")
       => (/\ Len(_sequence') = Len(_sequence)
           /\ LastOf(_sequence') = Append(LastOf(_sequence), last_op'.pulse))]_vars

-----------------------------------------------------------------------------
(* C4: an append of a pulse whose name is missing, is not a string or is   *)
(* registered for another pulse object is reported and changes nothing of  *)
(* the slice list, the registry, the variable names and the pending flag;  *)
(* the call returns the sequence.                                          *)

\* The name the last append came with is no acceptable name, judged on the
\* registry as it was before the call.
C4_BadName(op, pulses) ==
    \/ op.pname.tag = "None"
    \/ op.pname.tag # "str"
    \/ (op.pname.val \in DOMAIN pulses /\ pulses[op.pname.val] # op.pulse)

C4_RejectedAppend ==
    [][(last_op'.name \in Appends /\ C4_BadName(last_op', _pulses))
       => (/\ _sequence' = _sequence
           /\ _pulses' = _pulses
           /\ _variables' = _variables
           /\ _next_pulse_is_parallel' = _next_pulse_is_parallel
           /\ log' = "error:name"
           /\ ret' = SelfRet)]_vars

\* add(pulse, skip) was refused for a name held by another pulse, with a
\* skip that differs from the pending flag, on a sequence that has slices.
C4_Witness ==
    /\ last_op.name = "add"
    /\ log = "error:name"
    /\ last_op.pname.tag = "str"
    /\ last_op.pname.val \in DOMAIN _pulses
    /\ _pulses[last_op.pname.val] # last_op.pulse
    /\ heap[last_op.pulse].length.callable
    /\ last_op.skip # _next_pulse_is_parallel
    /\ _sequence # <<>>
    /\ ret = SelfRet

-----------------------------------------------------------------------------
(* C5: __call__ returns a waveform only if the names of the keyword        *)
(* arguments are exactly the variable names; with a name missing or a name *)
(* too many it reports the mismatch, returns nothing and leaves the        *)
(* sequence as it was.                                                     *)

C5_ParameterMismatch ==
    [][(last_op'.name = "call")
       => (/\ (ret'.kind = "tuple" => _variables = DOMAIN last_op'.kwargs)
           /\ (_variables # DOMAIN last_op'.kwargs
                 => (ret' = NoneRet /\ log' = "error:arguments"))
           /\ seqvars' = seqvars
           /\ heap' = heap)]_vars

\* A call with every variable name and one name too many, on a sequence
\* with a sample rate: nothing is returned.
C5_Witness ==
    /\ last_op.name = "call"
    /\ samplerate # 0
    /\ _variables # {}
    /\ _variables \subseteq DOMAIN last_op.kwargs
    /\ _variables # DOMAIN last_op.kwargs
    /\ ret = NoneRet
    /\ log = "error:arguments"

-----------------------------------------------------------------------------
(* C6: the variable names are exactly the parameter names of the pulses of *)
(* variable length that are in the slices.                                 *)

ScheduledIds ==
    UNION {Range(_sequence[i]) : i \in DOMAIN _sequence}

C6_VariableNames ==
    _variables
        = UNION {Range(heap[id].length.args) :
                    id \in {x \in ScheduledIds : heap[x].length.callable}}

\* A wait whose length is a function of u has just been refused for its
\* name, while a pulse whose length is a function of t is scheduled.
C6_Witness ==
    /\ last_op.name = "add_wait"
    /\ log = "error:name"
    /\ _variables = {"t"}
    /\ \E id \in ScheduledIds : heap[id].length.args = <<"t">>

-----------------------------------------------------------------------------
(* C7: a returned waveform is a zero, the internal samples, a zero: first  *)
(* and last sample are 0 whatever the pulses and dc_corr are, and there    *)
(* are 2 + n samples, n the largest start offset + buffer length of a      *)
(* slice (0 without slices).                                               *)

InternalCount(kwargs) ==
    SetMax({0} \cup {SliceStart(i, kwargs) + SliceBuffer(i, kwargs) :
                        i \in DOMAIN _sequence})

C7_ZeroPadded ==
    CallOk =>
        /\ Len(ret.waveform) = 2 + InternalCount(last_op.kwargs)
        /\ ret.waveform[1] = 0
        /\ ret.waveform[Len(ret.waveform)] = 0
        /\ (_sequence = <<>> => Len(ret.waveform) = 2)

\* A waveform with a dc_corr that is not 0 and internal samples.
C7_Witness ==
    /\ CallOk
    /\ dc_corr # 0
    /\ Len(ret.waveform) > 3
    /\ ret.waveform[2] # 0
    /\ ret.waveform[Len(ret.waveform) - 1] # 0

-----------------------------------------------------------------------------
(* C8: without a Readout pulse the returned readout index marks the end of *)
(* the sequence.                                                           *)

\* The claim as stated: the index is that of the sample after the last
\* slice, where a readout appended at the end would start.
C8_NoReadoutAtEnd ==
    (CallOk /\ ReadoutSlices = {}) =>
        ret.readout_index
            = 1 + SliceStart(Len(_sequence) + 1, last_op.kwargs)

-----------------------------------------------------------------------------
(* C9: appending a pulse object that is already registered under its name  *)
(* is accepted: the registry and the variable names stay as they are and   *)
(* the slice list gains that pulse once more, in a new slice or, after a   *)
(* parallel-with-next append, in the last slice.                           *)

C9_SameObjectAgain ==
    [][(/\ last_op'.name \in Appends
        /\ last_op'.pname.tag = "str"
        /\ last_op'.pname.val \in DOMAIN _pulses
        /\ _pulses[last_op'.pname.val] = last_op'.pulse)
       => (/\ log' = "none"
           /\ _pulses' = _pulses
           /\ _variables' = _variables
           /\ NumScheduled(_sequence') = NumScheduled(_sequence) + 1
           /\ _sequence' = IF _next_pulse_is_parallel
                           THEN [_sequence EXCEPT ![Len(_sequence)] =
                                    Append(@, last_op'.pulse)]
                           ELSE Append(_sequence, <<last_op'.pulse>>))]_vars

\* A pulse of variable length is scheduled twice, once in a slice of its
\* own and once joining a slice.
C9_Witness ==
    \E i, k \in DOMAIN _sequence :
        /\ i < k
        /\ Len(_sequence[i]) = 1
        /\ Len(_sequence[k]) = 2
        /\ _sequence[k][2] = _sequence[i][1]
        /\ heap[_sequence[i][1]].length.callable
        /\ last_op.name = "add"
        /\ last_op.pulse = _sequence[i][1]

-----------------------------------------------------------------------------
(* C10: without IQ mixing, internal sample i is dc_corr plus, for every    *)
(* pulse of every slice, that pulse's sample at i minus the start offset   *)
(* of its slice (0 where it has none): pulses add up within a slice and    *)
(* across slices.                                                          *)

\* The sample of the pulse of identity id at index k (from 1) of its own array.
PulseSample(id, k, kwargs) ==
    LET wfm == PulseWfm(heap[id], ResolveLength(heap[id], kwargs), samplerate)
    IN  IF k >= 1 /\ k <= Len(wfm) THEN wfm[k] ELSE 0

RECURSIVE SumPulses(_, _, _, _)
SumPulses(time_slice, j, k, kwargs) ==
    IF j = 0 THEN 0
    ELSE PulseSample(time_slice[j], k, kwargs)
         + SumPulses(time_slice, j - 1, k, kwargs)

RECURSIVE SumSlices(_, _, _)
SumSlices(i, k, kwargs) ==
    IF i = 0 THEN 0
    ELSE SumPulses(_sequence[i], Len(_sequence[i]), k - SliceStart(i, kwargs),
                   kwargs)
         + SumSlices(i - 1, k, kwargs)

C10_Superposition ==
    (CallOk /\ ~last_op.IQ_mixing) =>
        \A k \in 1..(Len(ret.waveform) - 2) :
            ret.waveform[k + 1]
                = dc_corr + SumSlices(Len(_sequence), k, last_op.kwargs)

\* A sample where a pulse of one slice and a pulse of a later slice are
\* both not 0, and a sample where two pulses of one slice are both not 0.
C10_Witness ==
    /\ CallOk /\ ~last_op.IQ_mixing
    /\ \E i, l \in DOMAIN _sequence : \E k \in 1..(Len(ret.waveform) - 2) :
          /\ i < l
          /\ SumPulses(_sequence[i], Len(_sequence[i]),
                       k - SliceStart(i, last_op.kwargs), last_op.kwargs) # 0
          /\ SumPulses(_sequence[l], Len(_sequence[l]),
                       k - SliceStart(l, last_op.kwargs), last_op.kwargs) # 0
    /\ \E i \in DOMAIN _sequence : \E k \in 1..(Len(ret.waveform) - 2) :
          /\ Len(_sequence[i]) = 2
          /\ PulseSample(_sequence[i][1], k - SliceStart(i, last_op.kwargs),
                         last_op.kwargs) # 0
          /\ PulseSample(_sequence[i][2], k - SliceStart(i, last_op.kwargs),
                         last_op.kwargs) # 0

-----------------------------------------------------------------------------
(* C11: with IQ mixing, the carrier of a pulse with an iq_frequency that   *)
(* renders n samples in a slice starting at sample p is evaluated at n     *)
(* points of time, the k-th (from 0) being (p + k) * timestep.             *)

\* The claim as stated, for the points of time of every carrier computed.
C11_CarrierTimes ==
    (last_op.name = "call" /\ last_op.IQ_mixing) =>
        \A i \in DOMAIN trace.mixes :
            /\ Len(trace.mixes[i].time) = trace.mixes[i].n
            /\ \A k \in 1..trace.mixes[i].n :
                  trace.mixes[i].time[k]
                      = (trace.mixes[i].position + k - 1) * timestep(samplerate)

-----------------------------------------------------------------------------
(* C12: the readout index returned with a waveform is a position of it,    *)
(* 1 <= index <= length - 1, and the slice cursor never decreases from one *)
(* slice to the next.                                                      *)

C12_IndexInWaveform ==
    CallOk =>
        /\ 1 <= ret.readout_index
        /\ ret.readout_index <= Len(ret.waveform) - 1
        /\ \A i \in 1..(Len(trace.positions) - 1) :
              trace.positions[i] <= trace.positions[i + 1]

\* A parallel group whose last pulse is the shorter one, then a readout of
\* no length at the very end: the index is that of the last sample.
C12_Witness ==
    /\ CallOk
    /\ Len(_sequence) = 2
    /\ Len(_sequence[1]) = 2
    /\ NSamples(_sequence[1][1], last_op.kwargs)
         > NSamples(_sequence[1][2], last_op.kwargs)
    /\ ReadoutSlices = {2}
    /\ NSamples(_sequence[2][1], last_op.kwargs) = 0
    /\ ret.readout_index > 1
    /\ ret.readout_index < Len(ret.waveform) - 1

-----------------------------------------------------------------------------

Next == Add \/ AddWait \/ AddReadout \/ Call

Spec == Init /\ [][Next]_vars

=============================================================================
